---- MODULE Spec2Model ----
(***************************************************************************)
(* Model of the agentic tool-use loop of the Discord bot: callClaude and   *)
(* its helpers estimateTokens, truncateResult and trimOlderToolResults.    *)
(*                                                                         *)
(* A JavaScript string is modelled as a sequence of segments.  A segment   *)
(* [k, src, n, nl] stands for n characters of kind k, the first nl of      *)
(* which are newline characters (JSON.stringify writes each as two);       *)
(* src tells tool outputs apart (the number of the executeTool call that   *)
(* produced them).  substring() cuts the segment sequence by length.       *)
(***************************************************************************)
EXTENDS Integers, Sequences, FiniteSets, TLC

\* ------------------------------------------------------------------ bounds
MaxK == 3            \* config.maxToolIterations ranges over 1..MaxK
MaxTools == 2        \* tool_use blocks in one LLM response: 0..MaxTools
MaxBlocks == 2       \* content blocks the model produces in tool-requesting responses of one invocation
MaxConv == 6         \* messages of a conversation handed directly to trimOlderToolResults
MaxApply == 2        \* successive applications of trimOlderToolResults to it
MaxRequests == 2     \* calls of handleClaudeRequest in one run of the bot
MaxCap == 11         \* config.maxConversationMessages ranges over 1..MaxCap
MaxMessages == 3     \* earlier bot: messages handled in one run
MaxCreate == 2       \* chat threads: createChatThread calls in one run
MaxThreadMsgs == 2   \* chat threads: user messages that keep a thread open
MaxIter == 12        \* maxToolIterations of a status note built on its own: 1..MaxIter

\* ------------------------------------------------------- program constants
TOOL_RESULT_MAX_CHARS == 12000
CONTEXT_TOKEN_BUDGET == 50000
MAX_HISTORY_MESSAGES == 10
TRIM_THRESHOLD == 500
PROTECTED_TAIL == 4
ONTEXT_MIN_CHARS == 20
CACHE_EXEMPT_TOOLS == {"git_status", "git_diff", "git_log", "repo_list", "repo_read", "shell"}

\* ------------------------------------------------------------------ strings
Min(a, b) == IF a <= b THEN a ELSE b

Seg(k, src, n, nl) == [k |-> k, src |-> src, n |-> n, nl |-> nl]

RECURSIVE StrLen(_)
StrLen(s) == IF s = <<>> THEN 0 ELSE Head(s).n + StrLen(Tail(s))

\* number of characters JSON.stringify adds when it escapes the string
RECURSIVE EscLen(_)
EscLen(s) == IF s = <<>> THEN 0 ELSE Head(s).nl + EscLen(Tail(s))

\* s.substring(0, m)
RECURSIVE Substring(_, _)
Substring(s, m) ==
  IF s = <<>> \/ m <= 0 THEN <<>>
  ELSE LET h == Head(s) IN
       IF h.n <= m THEN <<h>> \o Substring(Tail(s), m - h.n)
       ELSE <<[h EXCEPT !.n = m, !.nl = Min(h.nl, m)]>>

\* number of decimal digits of a length interpolated into a template
RECURSIVE Digits(_)
Digits(n) == IF n < 10 THEN 1 ELSE 1 + Digits(n \div 10)

\* '\n\n[Cached — identical to previous call. Try a different approach or parameters.]'
CachedMarker == <<Seg("cached", 0, 80, 2)>>
\* `\n\n[... truncated — original ${text.length} chars. Request specific sections if needed.]`
TruncationNotice(len) == <<Seg("truncated", len, 73 + Digits(len), 2)>>
\* '\n[... trimmed to save context ...]'
TrimMarker == <<Seg("trimmed", 0, 34, 1)>>
\* `Error: ${err.message}`
ErrorText(msg) == <<Seg("Error: ", 0, 7, 0)>> \o msg
\* the instruction of the forced-summary call
SummaryInstruction == <<Seg("summarize", 0, 183, 0)>>

\* the string holds the whole cache-hit marker
HasCachedMarker(s) == \E i \in 1..Len(s) : s[i] = CachedMarker[1]

\* --------------------------------------------------------- content blocks
\* every block is a record of the same shape; unused fields are empty
TextBlock(s) == [type |-> "text", id |-> 0, name |-> "", input |-> <<>>, str |-> s]
ToolUseBlock(id, name, input) ==
  [type |-> "tool_use", id |-> id, name |-> name, input |-> input, str |-> <<>>]
ToolResultBlock(id, s) ==
  [type |-> "tool_result", id |-> id, name |-> "", input |-> <<>>, str |-> s]

\* a message whose content is a string (isString) or an array of blocks
StringMessage(role, s) == [role |-> role, isString |-> TRUE, content |-> <<TextBlock(s)>>]
BlockMessage(role, blocks) == [role |-> role, isString |-> FALSE, content |-> blocks]

\* JSON.stringify(toolUse.input): the keys in insertion order
JSONstringify(input) == input
\* length of JSON.stringify(input): braces, and per key "k":v with a comma
InputJsonLen(input) == 2 + 12 * Len(input)

\* JSON.stringify(block).length
BlockJsonLen(b) ==
  CASE b.type = "tool_result" -> 52 + 30 + StrLen(b.str) + EscLen(b.str)
    [] b.type = "tool_use" -> 46 + 30 + 12 + InputJsonLen(b.input)
    [] OTHER -> 25 + StrLen(b.str) + EscLen(b.str)

RECURSIVE SumBlocks(_)
SumBlocks(blocks) ==
  IF blocks = <<>> THEN 0 ELSE BlockJsonLen(Head(blocks)) + SumBlocks(Tail(blocks))

RECURSIVE CountChars(_)
CountChars(messages) ==
  IF messages = <<>> THEN 0
  ELSE LET msg == Head(messages) IN
       (IF msg.isString THEN StrLen(msg.content[1].str) ELSE SumBlocks(msg.content))
       + CountChars(Tail(messages))

\* Math.ceil(chars / 4)
estimateTokens(messages) == (CountChars(messages) + 3) \div 4

truncateResult_Whole(text) == text

truncateResult(text) ==
  IF StrLen(text) <= TOOL_RESULT_MAX_CHARS THEN text
  ELSE Substring(text, TOOL_RESULT_MAX_CHARS) \o TruncationNotice(StrLen(text))

TrimBlock_MarkerOnly(block) ==
  IF block.type = "tool_result" /\ StrLen(block.str) > TRIM_THRESHOLD
  THEN [block EXCEPT !.str = TrimMarker]
  ELSE block

\* the block mapping of trimOlderToolResults (the callback of content.map)
TrimBlock(block) ==
  IF block.type = "tool_result" /\ StrLen(block.str) > TRIM_THRESHOLD
  THEN [block EXCEPT !.str = Substring(block.str, TRIM_THRESHOLD) \o TrimMarker]
  ELSE block

TrimMessage_AnyRole(msg) ==
  IF ~msg.isString
  THEN BlockMessage("user", [j \in 1..Len(msg.content) |-> TrimBlock(msg.content[j])])
  ELSE msg

\* lines 62-73: a user message whose content is an array is rebuilt
TrimMessage(msg) ==
  IF msg.role = "user" /\ ~msg.isString
  THEN BlockMessage("user", [j \in 1..Len(msg.content) |-> TrimBlock(msg.content[j])])
  ELSE msg

BudgetMet_Never(trimmed) == FALSE

\* line 74: the estimate is taken again after each message
BudgetMet(trimmed) == estimateTokens(trimmed) <= CONTEXT_TOKEN_BUDGET

TrimmableCount_WholeList(trimmed) == Len(trimmed)

\* line 61: the messages the for loop visits, all but the last 4
TrimmableCount(trimmed) == Len(trimmed) - PROTECTED_TAIL

\* the for loop of trimOlderToolResults from (0-based) index i - 1 on
RECURSIVE TrimFrom(_, _)
TrimFrom(trimmed, i) ==
  IF i > TrimmableCount(trimmed) THEN trimmed
  ELSE LET t == [trimmed EXCEPT ![i] = TrimMessage(trimmed[i])] IN
       IF BudgetMet(t) THEN t ELSE TrimFrom(t, i + 1)

trimOlderToolResults_NoGuard(messages) == TrimFrom(messages, 1)

trimOlderToolResults(messages) ==
  IF estimateTokens(messages) <= CONTEXT_TOKEN_BUDGET THEN messages
  ELSE TrimFrom(messages, 1)

\* ------------------------------------------------------------- environment
\* tool inputs: objects as lists of <<key, value>> in insertion order;
\* InputB holds the keys and values of InputA in another order
InputA == <<<<"path", 1>>, <<"repo", 2>>>>
InputB == <<<<"repo", 2>>, <<"path", 1>>>>
InputQ == <<<<"query", 3>>>>
InputR == <<<<"repo", 2>>>>

\* an input JSON.stringify cannot serialize: the value 0 stands for arrays
\* nested deeper than its recursion can walk (JSON.parse reads them)
InputDeep == <<<<"query", 0>>>>
DeepCall == [name |-> "web_search", input |-> InputDeep]

\* JSON.stringify(input) throws a RangeError
StringifyThrows(input) == \E i \in 1..Len(input) : input[i][2] = 0

\* estimateTokens(messages) throws: line 40 serializes every block
EstimateThrows(msgs) ==
  \E m \in 1..Len(msgs) :
    /\ ~msgs[m].isString
    /\ \E j \in 1..Len(msgs[m].content) : StringifyThrows(msgs[m].content[j].input)

\* the tool calls the model may request
ToolCalls ==
  { [name |-> "github_get_file", input |-> InputA],
    [name |-> "github_get_file", input |-> InputB],
    [name |-> "web_search", input |-> InputQ],
    [name |-> "git_status", input |-> InputR] }

\* output of the n-th executeTool call: a file above the truncation limit,
\* a search result above the trim threshold, a short status
ToolOutput(name, n) ==
  <<Seg("output", n, IF name = "github_get_file" THEN 13000
                     ELSE IF name = "web_search" THEN 600 ELSE 100, 0)>>
ErrMessage(n) == <<Seg("message", n, 40, 0)>>

LongText == <<Seg("text", 0, 60, 0)>>
Query == <<Seg("query", 0, 50, 0)>>

SeqsUpTo(S, n) == UNION { [1..m -> S] : m \in 0..n }

\* what an LLM answer carries besides its usage: stop_reason, an optional
\* text (<<>> when absent) and the requested tool calls.  An answer with
\* stop_reason tool_use holds a tool_use block (both clients build it so);
\* one cut off at max_tokens may hold a tool_use block or none
Answers ==
  { [stop_reason |-> "tool_use", text |-> t, calls |-> c] :
      t \in {<<>>, LongText}, c \in SeqsUpTo(ToolCalls, MaxTools) \ {<<>>} }
  \cup { [stop_reason |-> "max_tokens", text |-> LongText, calls |-> c] :
      c \in SeqsUpTo(ToolCalls, 1) }
  \cup { [stop_reason |-> "end_turn", text |-> t, calls |-> <<>>] : t \in {<<>>, LongText} }

\* answers to the forced-summary call, which is made without tools
SummaryAnswers ==
  { [stop_reason |-> sr, text |-> LongText, calls |-> <<>>] : sr \in {"end_turn", "max_tokens"} }

AnswerBlocks(a) == (IF a.text = <<>> THEN 0 ELSE 1) + Len(a.calls)

\* the response object of anthropic.messages.create for answer a given on
\* iteration iter to the message list sent
Response(a, iter, sent) ==
  [ stop_reason |-> a.stop_reason,
    content |-> (IF a.text = <<>> THEN <<>> ELSE <<TextBlock(a.text)>>)
                \o [i \in 1..Len(a.calls) |->
                      ToolUseBlock(10 * iter + i, a.calls[i].name, a.calls[i].input)],
    usage |-> [input_tokens |-> estimateTokens(sent), output_tokens |-> 1 + AnswerBlocks(a)] ]

NoResponse == [stop_reason |-> "null", content |-> <<>>,
               usage |-> [input_tokens |-> 0, output_tokens |-> 0]]

\* response.content.filter(b => b.type === 'tool_use')
RECURSIVE FilterType(_, _)
FilterType(content, type) ==
  IF content = <<>> THEN <<>>
  ELSE (IF Head(content).type = type THEN <<Head(content)>> ELSE <<>>)
       \o FilterType(Tail(content), type)

\* the intermediate text: the text blocks joined by '\n'
RECURSIVE JoinText(_)
JoinText(blocks) ==
  IF blocks = <<>> THEN <<>>
  ELSE IF Len(blocks) = 1 THEN blocks[1].str
  ELSE blocks[1].str \o <<Seg("\n", 0, 1, 1)>> \o JoinText(Tail(blocks))

\* -------------------------------------------------------------------- state
VARIABLES
  pc,                 \* where callClaude stands
  maxToolIterations,  \* config.maxToolIterations
  messages,           \* the history passed by the caller
  aborted,            \* context._aborted
  currentMessages, iterations, lastResponse,
  totalInputTokens, totalOutputTokens,
  toolsUsed, toolCache,
  toolUseBlocks, toolResults, toolIdx,   \* the round in progress
  thrown,             \* the error callClaude rejected with, "none" otherwise
  llmCalls,           \* history: the anthropic.messages.create calls made
  execLog,            \* history: the executeTool calls made
  observed,           \* history: where the loop saw the abort flag
  abortedAtRound,     \* history: the abort flag when the round in progress began
  resultStrs,         \* history: resultStr of each tool of the round (line 253)
  produced,           \* blocks produced so far by tool-requesting answers
  hookThrew,          \* history: an onText or onToolStart callback has rejected
  conversation,       \* the argument of a direct call of trimOlderToolResults
  compacted,          \* what trimOlderToolResults returned for it
  applications,       \* how many times it was applied
  activeRequests,     \* bot: the map channel id -> context of the request
  requests,           \* bot: the handleClaudeRequest calls made so far
  history,            \* conversation store: the stored history of a chat thread
  maxConversationMessages,   \* config.maxConversationMessages
  request,            \* the message list the pending thread request sends first
  statusInput,        \* iteration, maximum and tokens a status note is built from
  budgetTable,        \* the Iteration Budget table of the system prompt
  note,               \* the status note built from them
  activeChannels,     \* earlier bot: the Set activeRequests of createBot
  handlers,           \* earlier bot: the messageCreate handlers run so far
  threads,            \* chat threads: the registry, thread id -> createdBy
  inactivityTimers,   \* chat threads: the ids with an inactivity timer set
  creating,           \* chat threads: the createChatThread calls made so far
  nextThread,         \* chat threads: the id Discord gives the next thread
  threadMsgs          \* chat threads: user messages that kept a thread open

vars == <<pc, maxToolIterations, messages, aborted, currentMessages, iterations,
          lastResponse, totalInputTokens, totalOutputTokens, toolsUsed, toolCache,
          toolUseBlocks, toolResults, toolIdx, thrown, llmCalls, execLog, observed,
          abortedAtRound, resultStrs, produced, hookThrew, conversation, compacted, applications,
          activeRequests, requests, history, maxConversationMessages, request,
          statusInput, budgetTable, note, activeChannels, handlers, threads,
          inactivityTimers, creating, nextThread, threadMsgs>>

\* what belongs to the callers of callClaude and of trimOlderToolResults
trimVars == <<conversation, compacted, applications>>
botVars == <<activeRequests, requests>>
histVars == <<history, maxConversationMessages, request>>
phaseVars == <<statusInput, budgetTable, note>>
earlyVars == <<activeChannels, handlers>>
threadVars == <<threads, inactivityTimers, creating, nextThread, threadMsgs>>
outer == <<trimVars, botVars, histVars, phaseVars, earlyVars, threadVars>>

\* the parts of the program around callClaude at rest
TrimIdle == conversation = <<>> /\ compacted = <<>> /\ applications = 0
BotIdle == activeRequests = <<>> /\ requests = <<>>
HistoryIdle == history = <<>> /\ maxConversationMessages = 1 /\ request = <<>>
NoNote == TextBlock(<<>>)
PhaseIdle ==
  statusInput = [i |-> 0, maxIter |-> 0, tokens |-> 0] /\ budgetTable = <<>> /\ note = NoNote
EarlyIdle == activeChannels = {} /\ handlers = <<>>
ThreadsIdle ==
  /\ threads = <<>>
  /\ inactivityTimers = {}
  /\ creating = <<>>
  /\ nextThread = 1
  /\ threadMsgs = 0
ctl == <<maxToolIterations, messages, hookThrew, outer>>
acc == <<lastResponse, totalInputTokens, totalOutputTokens>>
round == <<toolUseBlocks, toolResults, toolIdx, abortedAtRound, resultStrs>>
tools == <<toolsUsed, toolCache, execLog>>

\* the point where the loop sees the abort flag and breaks, with the numbers
\* of LLM calls and tool executions made until then
NoObservation == [at |-> "none", iteration |-> 0, llm |-> 0, exec |-> 0, done |-> 0]
Observation(at, iter, done) ==
  [at |-> at, iteration |-> iter, llm |-> Len(llmCalls), exec |-> Len(execLog),
   done |-> done]

Init ==
  /\ pc = "start"
  /\ maxToolIterations \in 1..MaxK
  /\ messages = <<StringMessage("user", Query)>>
  /\ aborted = FALSE          \* handleClaudeRequest passes a fresh context
  /\ currentMessages = <<>>
  /\ iterations = 0
  /\ lastResponse = NoResponse
  /\ totalInputTokens = 0
  /\ totalOutputTokens = 0
  /\ toolsUsed = {}
  /\ toolCache = <<>>
  /\ toolUseBlocks = <<>>
  /\ toolResults = <<>>
  /\ toolIdx = 0
  /\ thrown = "none"
  /\ llmCalls = <<>>
  /\ execLog = <<>>
  /\ observed = NoObservation
  /\ abortedAtRound = FALSE
  /\ resultStrs = <<>>
  /\ produced = 0
  /\ hookThrew = FALSE
  /\ TrimIdle
  /\ BotIdle
  /\ HistoryIdle
  /\ PhaseIdle
  /\ EarlyIdle
  /\ ThreadsIdle

\* messages.slice(-MAX_HISTORY_MESSAGES), or a copy of a short history
recentHistory(msgs) ==
  IF Len(msgs) > MAX_HISTORY_MESSAGES
  THEN SubSeq(msgs, Len(msgs) - MAX_HISTORY_MESSAGES + 1, Len(msgs))
  ELSE msgs

\* lines 88-116: the locals of callClaude
Start ==
  /\ pc = "start"
  /\ currentMessages' = recentHistory(messages)
  /\ pc' = "loop"
  /\ UNCHANGED <<ctl, aborted, iterations, acc, round, tools, thrown, llmCalls,
                 observed, produced>>

\* --------------------------------------------------------------- the loop
WhileCond_Unbounded == TRUE

\* line 118: the condition of the while loop
WhileCond == iterations < maxToolIterations

LimitReached_Strict == iterations > maxToolIterations

\* line 303: the condition of the forced summary
LimitReached == iterations >= maxToolIterations

ContinueLoop_ByContent(response) == FilterType(response.content, "tool_use") # <<>>

\* line 184: the loop goes on only if the response asks for tool use
ContinueLoop(response) == response.stop_reason = "tool_use"

\* the LLM errors anthropic.messages.create may reject with
LLMErrors == {"APIConnectionError", "RateLimitError"}

\* history record of a call of anthropic.messages.create
LLMCall(withTools, iter, sent) ==
  [tools |-> withTools, iteration |-> iter, messages |-> sent, execs |-> Len(execLog),
   outcome |-> "pending", response |-> NoResponse, error |-> "none"]

\* the call in flight has settled
Settled(response) ==
  [llmCalls EXCEPT ![Len(llmCalls)].outcome = "ok", ![Len(llmCalls)].response = response]
\* line 118 false: the while loop ends because the iteration limit is reached
LoopExit ==
  /\ pc = "loop"
  /\ ~WhileCond
  /\ pc' = "afterLoop"
  /\ UNCHANGED <<ctl, aborted, currentMessages, iterations, acc, round, tools, thrown,
                 llmCalls, observed, produced>>

\* lines 118-148: an iteration begins.  If the abort flag is set the loop
\* breaks; otherwise the context is trimmed and the LLM is called with tools
LoopIterate ==
  /\ pc = "loop"
  /\ WhileCond
  /\ iterations' = iterations + 1
  /\ IF aborted
     THEN /\ observed' = Observation("top", iterations', 0)
          /\ pc' = "afterLoop"
          /\ UNCHANGED <<currentMessages, llmCalls>>
     ELSE /\ currentMessages' = trimOlderToolResults(currentMessages)
          /\ llmCalls' = Append(llmCalls, LLMCall(TRUE, iterations', currentMessages'))
          /\ pc' = "llm"
          /\ UNCHANGED observed
  /\ UNCHANGED <<ctl, aborted, acc, round, tools, thrown, produced>>

\* lines 209-213: the response joins the conversation and the round begins
BeginRound(content) ==
  /\ currentMessages' = Append(currentMessages, BlockMessage("assistant", content))
  /\ toolResults' = <<>>
  /\ resultStrs' = <<>>
  /\ toolIdx' = 1
  /\ abortedAtRound' = aborted
  /\ pc' = "tool"

\* lines 148-186: the LLM answers and the answer ends the loop
LLMFinal(a) ==
  /\ pc = "llm"
  /\ produced + AnswerBlocks(a) <= MaxBlocks
  /\ LET response == Response(a, iterations, llmCalls[Len(llmCalls)].messages) IN
       /\ ~ContinueLoop(response)
       /\ llmCalls' = Settled(response)
       /\ lastResponse' = response
       /\ totalInputTokens' = totalInputTokens + response.usage.input_tokens
       /\ totalOutputTokens' = totalOutputTokens + response.usage.output_tokens
  /\ pc' = "afterLoop"
  /\ UNCHANGED <<ctl, aborted, currentMessages, iterations, round, tools, thrown,
                 observed, produced>>

\* lines 148-213: the LLM answers with stop_reason tool_use; the hooks are
\* awaited when they apply, otherwise the round begins at once
LLMToolUse(a) ==
  /\ pc = "llm"
  /\ produced + AnswerBlocks(a) <= MaxBlocks
  /\ produced' = produced + AnswerBlocks(a)
  /\ LET response == Response(a, iterations, llmCalls[Len(llmCalls)].messages) IN
       /\ ContinueLoop(response)
       /\ llmCalls' = Settled(response)
       /\ lastResponse' = response
       /\ totalInputTokens' = totalInputTokens + response.usage.input_tokens
       /\ totalOutputTokens' = totalOutputTokens + response.usage.output_tokens
       /\ toolUseBlocks' = FilterType(response.content, "tool_use")
       /\ IF StrLen(JoinText(FilterType(response.content, "text"))) >= ONTEXT_MIN_CHARS
          THEN pc' = "onText" /\ UNCHANGED <<currentMessages, toolResults, toolIdx, abortedAtRound, resultStrs>>
          ELSE IF Len(toolUseBlocks') > 0
          THEN pc' = "onToolStart" /\ UNCHANGED <<currentMessages, toolResults, toolIdx, abortedAtRound, resultStrs>>
          ELSE BeginRound(response.content)
  /\ UNCHANGED <<ctl, aborted, iterations, tools, thrown, observed>>

\* lines 200-213: callClaude goes on after the await of options.onText
AfterOnText ==
  /\ pc = "onText"
  /\ IF Len(toolUseBlocks) > 0
     THEN pc' = "onToolStart" /\ UNCHANGED <<currentMessages, toolResults, toolIdx, abortedAtRound, resultStrs>>
     ELSE BeginRound(lastResponse.content)
  /\ UNCHANGED <<maxToolIterations, messages, outer, aborted, iterations, acc,
                 toolUseBlocks, tools, thrown, llmCalls, observed, produced>>

\* lines 207-213: callClaude goes on after the await of options.onToolStart
AfterOnToolStart ==
  /\ pc = "onToolStart"
  /\ BeginRound(lastResponse.content)
  /\ UNCHANGED <<maxToolIterations, messages, outer, aborted, iterations, acc,
                 toolUseBlocks, tools, thrown, llmCalls, observed, produced>>

\* lines 196-197: options.onText has settled
OnTextReturn == AfterOnText /\ UNCHANGED hookThrew

\* lines 206-207: options.onToolStart has settled
OnToolStartReturn == AfterOnToolStart /\ UNCHANGED hookThrew

HookThrow_Propagating ==
  /\ pc \in {"onText", "onToolStart"}
  /\ hookThrew' = TRUE
  /\ thrown' = "HookError"
  /\ pc' = "thrown"
  /\ UNCHANGED <<maxToolIterations, messages, outer, aborted, currentMessages,
                 iterations, acc, round, tools, llmCalls, observed, produced>>

\* lines 196-197, 206-207: the awaited callback rejects; the catch clause
\* logs the error or drops it
HookThrow ==
  /\ AfterOnText \/ AfterOnToolStart
  /\ hookThrew' = TRUE

\* `${toolUse.name}:${JSON.stringify(toolUse.input)}`
cacheKey(toolUse) == <<toolUse.name, JSONstringify(toolUse.input)>>

\* toolCache.set(key, value)
CacheSet(cache, key, value) ==
  [k \in DOMAIN cache \cup {key} |-> IF k = key THEN value ELSE cache[k]]

CacheHit_IgnoringExemption(toolUse) == cacheKey(toolUse) \in DOMAIN toolCache

\* line 235: the call is answered from the cache
CacheHit(toolUse) ==
  cacheKey(toolUse) \in DOMAIN toolCache /\ toolUse.name \notin CACHE_EXEMPT_TOOLS

Phase_Inclusive(i, maxIter) ==
  IF i <= 3 THEN "Research"
  ELSE IF 10 * i <= 7 * maxIter THEN "Action"
  ELSE IF 10 * i <= 9 * maxIter THEN "Wrap up"
  ELSE "STOP"

\* lines 289-293: pct = iterations / maxIter is compared with 0.7 and 0.9;
\* the quotient of two small integers is below 0.7 exactly when
\* 10 * i < 7 * maxIter
Phase(i, maxIter) ==
  IF i <= 3 THEN "Research"
  ELSE IF 10 * i < 7 * maxIter THEN "Action"
  ELSE IF 10 * i < 9 * maxIter THEN "Wrap up"
  ELSE "STOP"

\* lines 294-297: the status text block; name holds the phase, src the tokens
StatusNote(i, maxIter, tokens) ==
  [type |-> "text", id |-> i, name |-> Phase(i, maxIter), input |-> <<>>,
   str |-> <<Seg("status", tokens, 60, 0)>>]

\* lines 252-284: the result of the current tool is pushed, then the abort
\* flag is checked (line 277, then line 281)
PushResult(resultStr) ==
  /\ resultStrs' = Append(resultStrs, resultStr)
  /\ toolResults' = Append(toolResults,
                           ToolResultBlock(toolUseBlocks[toolIdx].id, truncateResult(resultStr)))
  /\ IF aborted
     THEN /\ observed' = Observation("tools", iterations, toolIdx)
          /\ pc' = "afterLoop"
          /\ toolIdx' = toolIdx
     ELSE /\ observed' = observed
          /\ pc' = "tool"
          /\ toolIdx' = toolIdx + 1

UsedAfter_WholeRound(toolUse) ==
  toolsUsed \cup {toolUseBlocks[j].name : j \in 1..Len(toolUseBlocks)}

\* line 216: toolsUsed.add(toolUse.name), for the tool in turn only
UsedAfter(toolUse) == toolsUsed \cup {toolUse.name}

\* lines 214-237, 250-284: the next tool of the round is a cache hit
ToolCached ==
  /\ pc = "tool"
  /\ toolIdx <= Len(toolUseBlocks)
  /\ ~StringifyThrows(toolUseBlocks[toolIdx].input)
  /\ CacheHit(toolUseBlocks[toolIdx])
  /\ toolsUsed' = UsedAfter(toolUseBlocks[toolIdx])
  /\ PushResult(toolCache[cacheKey(toolUseBlocks[toolIdx])] \o CachedMarker)
  /\ UNCHANGED <<ctl, aborted, currentMessages, iterations, acc, toolUseBlocks,
                 abortedAtRound, toolCache, execLog, thrown, llmCalls, produced>>

\* lines 214-241: the next tool of the round is handed to executeTool
ToolInvoke ==
  /\ pc = "tool"
  /\ toolIdx <= Len(toolUseBlocks)
  /\ ~StringifyThrows(toolUseBlocks[toolIdx].input)
  /\ ~CacheHit(toolUseBlocks[toolIdx])
  /\ toolsUsed' = UsedAfter(toolUseBlocks[toolIdx])
  /\ execLog' = Append(execLog, [name |-> toolUseBlocks[toolIdx].name,
                                 input |-> toolUseBlocks[toolIdx].input,
                                 iteration |-> iterations, index |-> toolIdx,
                                 abortedBefore |-> aborted,
                                 abortedAtRound |-> abortedAtRound, threw |-> FALSE])
  /\ pc' = "exec"
  /\ UNCHANGED <<ctl, aborted, currentMessages, iterations, acc, round, toolCache,
                 thrown, llmCalls, observed, produced>>

\* lines 241-243, 250-284: executeTool returns a result
ExecReturn ==
  /\ pc = "exec"
  /\ LET result == ToolOutput(toolUseBlocks[toolIdx].name, Len(execLog)) IN
       /\ toolCache' = CacheSet(toolCache, cacheKey(toolUseBlocks[toolIdx]), result)
       /\ PushResult(result)
  /\ UNCHANGED <<ctl, aborted, currentMessages, iterations, acc, toolUseBlocks,
                 abortedAtRound, toolsUsed, execLog, thrown, llmCalls, produced>>

ExecThrow_Propagating ==
  /\ pc = "exec"
  /\ execLog' = [execLog EXCEPT ![Len(execLog)].threw = TRUE]
  /\ thrown' = "ToolError"
  /\ pc' = "thrown"
  /\ UNCHANGED <<ctl, aborted, currentMessages, iterations, acc, round, toolsUsed,
                 toolCache, llmCalls, observed, produced>>

\* lines 244-248, 250-284: executeTool throws
ExecThrow ==
  /\ pc = "exec"
  /\ execLog' = [execLog EXCEPT ![Len(execLog)].threw = TRUE]
  /\ PushResult(ErrorText(ErrMessage(Len(execLog))))
  /\ UNCHANGED <<ctl, aborted, currentMessages, iterations, acc, toolUseBlocks,
                 abortedAtRound, toolsUsed, toolCache, thrown, llmCalls, produced>>

RoundEnd_ResultsOnly ==
  /\ pc = "tool"
  /\ toolIdx > Len(toolUseBlocks)
  /\ IF aborted
     THEN /\ observed' = Observation("tools", iterations, Len(toolUseBlocks))
          /\ pc' = "afterLoop"
          /\ UNCHANGED currentMessages
     ELSE /\ currentMessages' = Append(currentMessages, BlockMessage("user", toolResults))
          /\ pc' = "loop"
          /\ UNCHANGED observed
  /\ UNCHANGED <<ctl, aborted, iterations, acc, round, tools, thrown, llmCalls, produced>>

\* lines 280-301: the for loop is over.  If the abort flag is set the loop
\* breaks; otherwise the results and the status note are appended
RoundEnd ==
  /\ pc = "tool"
  /\ toolIdx > Len(toolUseBlocks)
  /\ IF aborted
     THEN /\ observed' = Observation("tools", iterations, Len(toolUseBlocks))
          /\ pc' = "afterLoop"
          /\ UNCHANGED currentMessages
     ELSE /\ currentMessages' =
               Append(currentMessages,
                      BlockMessage("user",
                        Append(toolResults,
                               StatusNote(iterations, maxToolIterations,
                                          totalInputTokens + totalOutputTokens))))
          /\ pc' = "loop"
          /\ UNCHANGED observed
  /\ UNCHANGED <<ctl, aborted, iterations, acc, round, tools, thrown, llmCalls, produced>>

SummaryCall_Counted ==
  /\ pc = "afterLoop"
  /\ LimitReached
  /\ iterations' = iterations + 1
  /\ currentMessages' = Append(currentMessages, StringMessage("user", SummaryInstruction))
  /\ llmCalls' = Append(llmCalls, LLMCall(FALSE, iterations,
                                          trimOlderToolResults(currentMessages')))
  /\ pc' = "summary"
  /\ UNCHANGED <<ctl, aborted, acc, round, tools, thrown, observed, produced>>

\* lines 303-319: the iteration limit was reached: forced-summary call
SummaryCall ==
  /\ pc = "afterLoop"
  /\ LimitReached
  /\ ~EstimateThrows(currentMessages)
  /\ currentMessages' = Append(currentMessages, StringMessage("user", SummaryInstruction))
  /\ llmCalls' = Append(llmCalls, LLMCall(FALSE, iterations,
                                          trimOlderToolResults(currentMessages')))
  /\ pc' = "summary"
  /\ UNCHANGED <<ctl, aborted, iterations, acc, round, tools, thrown, observed, produced>>

SummaryReturn_Uncounted(a) ==
  /\ pc = "summary"
  /\ LET response == Response(a, iterations + 1, llmCalls[Len(llmCalls)].messages) IN
       /\ llmCalls' = Settled(response)
       /\ lastResponse' = response
  /\ pc' = "done"
  /\ UNCHANGED <<ctl, aborted, currentMessages, iterations, totalInputTokens,
                 totalOutputTokens, round, tools, thrown, observed, produced>>

\* lines 313-334: the forced-summary call answers
SummaryReturn(a) ==
  /\ pc = "summary"
  /\ LET response == Response(a, iterations + 1, llmCalls[Len(llmCalls)].messages) IN
       /\ llmCalls' = Settled(response)
       /\ lastResponse' = response
       /\ totalInputTokens' = totalInputTokens + response.usage.input_tokens
       /\ totalOutputTokens' = totalOutputTokens + response.usage.output_tokens
  /\ pc' = "done"
  /\ UNCHANGED <<ctl, aborted, currentMessages, iterations, round, tools, thrown,
                 observed, produced>>

\* lines 303, 336-343: no summary is due; callClaude returns
Return ==
  /\ pc = "afterLoop"
  /\ ~LimitReached
  /\ pc' = "done"
  /\ UNCHANGED <<ctl, aborted, currentMessages, iterations, acc, round, tools, thrown,
                 llmCalls, observed, produced>>

LLMFail_Swallowed(e) ==
  /\ pc \in {"llm", "summary"}
  /\ llmCalls' = [llmCalls EXCEPT ![Len(llmCalls)].outcome = "failed",
                                  ![Len(llmCalls)].error = e]
  /\ pc' = "done"
  /\ UNCHANGED <<ctl, aborted, currentMessages, iterations, acc, round, tools, thrown,
                 observed, produced>>

\* lines 148, 313: anthropic.messages.create rejects; callClaude rejects
LLMFail(e) ==
  /\ pc \in {"llm", "summary"}
  /\ llmCalls' = [llmCalls EXCEPT ![Len(llmCalls)].outcome = "failed",
                                  ![Len(llmCalls)].error = e]
  /\ thrown' = e
  /\ pc' = "thrown"
  /\ UNCHANGED <<ctl, aborted, currentMessages, iterations, acc, round, tools,
                 observed, produced>>

\* the places where callClaude is suspended in an await
AwaitPoints == {"llm", "onText", "onToolStart", "exec", "summary"}

Abort_Preempting ==
  /\ pc \in AwaitPoints
  /\ ~aborted
  /\ aborted' = TRUE
  /\ pc' = IF pc = "exec" THEN "afterLoop" ELSE pc
  /\ UNCHANGED <<ctl, currentMessages, iterations, acc, round, tools, thrown,
                 llmCalls, observed, produced>>

\* the stop button or a stop keyword sets context._aborted; the handler can
\* only run while callClaude is suspended
Abort ==
  /\ pc \in AwaitPoints
  /\ ~aborted
  /\ aborted' = TRUE
  /\ UNCHANGED <<pc, ctl, currentMessages, iterations, acc, round, tools, thrown,
                 llmCalls, observed, produced>>

Next ==
  \/ Start
  \/ LoopExit
  \/ LoopIterate
  \/ \E a \in Answers : LLMFinal(a)
  \/ \E a \in Answers : LLMToolUse(a)
  \/ OnTextReturn
  \/ OnToolStartReturn
  \/ ToolCached
  \/ ToolInvoke
  \/ ExecReturn
  \/ ExecThrow
  \/ RoundEnd
  \/ SummaryCall
  \/ \E a \in SummaryAnswers : SummaryReturn(a)
  \/ Return
  \/ \E e \in LLMErrors : LLMFail(e)
  \/ Abort

Spec == Init /\ [][Next]_vars

\* the steps callClaude takes by itself or when an LLM call or a tool
\* execution settles: all but the return of the onText and onToolStart
\* callbacks and the stop handlers
Progress ==
  \/ Start
  \/ LoopExit
  \/ LoopIterate
  \/ \E a \in Answers : LLMFinal(a)
  \/ \E a \in Answers : LLMToolUse(a)
  \/ ToolCached
  \/ ToolInvoke
  \/ ExecReturn
  \/ ExecThrow
  \/ RoundEnd
  \/ SummaryCall
  \/ \E a \in SummaryAnswers : SummaryReturn(a)
  \/ Return
  \/ \E e \in LLMErrors : LLMFail(e)

\* every LLM call and every tool execution eventually returns or fails, and
\* the event loop resumes callClaude
LiveSpec == Spec /\ WF_vars(Progress)

\* ------------------------------------- tool inputs that cannot be serialized
\* answers that ask for a tool with an input JSON.stringify cannot serialize
DeepAnswers ==
  { [stop_reason |-> "tool_use", text |-> <<>>, calls |-> c] :
      c \in {<<DeepCall>>} \cup UNION {{<<t, DeepCall>>, <<DeepCall, t>>} : t \in ToolCalls} }

\* lines 214-234: the cache key of the next tool cannot be built; the
\* template literal of line 234 is outside the try of line 239
KeyThrow ==
  /\ pc = "tool"
  /\ toolIdx <= Len(toolUseBlocks)
  /\ StringifyThrows(toolUseBlocks[toolIdx].input)
  /\ toolsUsed' = UsedAfter(toolUseBlocks[toolIdx])
  /\ thrown' = "RangeError"
  /\ pc' = "thrown"
  /\ UNCHANGED <<ctl, aborted, currentMessages, iterations, acc, round, toolCache,
                 execLog, llmCalls, observed, produced>>

\* lines 303-316: the summary is due, but the estimate taken by
\* trimOlderToolResults serializes a block that cannot be serialized
SummaryEstimateThrow ==
  /\ pc = "afterLoop"
  /\ LimitReached
  /\ EstimateThrows(currentMessages)
  /\ currentMessages' = Append(currentMessages, StringMessage("user", SummaryInstruction))
  /\ thrown' = "RangeError"
  /\ pc' = "thrown"
  /\ UNCHANGED <<ctl, aborted, iterations, acc, round, tools, llmCalls, observed, produced>>

KeyNext ==
  \/ Next
  \/ \E a \in DeepAnswers : LLMToolUse(a)
  \/ KeyThrow
  \/ SummaryEstimateThrow

KeySpec == Init /\ [][KeyNext]_vars

\* ------------------------------------------------- callbacks that reject
HookNext == Next \/ HookThrow

HookSpec == Init /\ [][HookNext]_vars

\* ------------------------------------------- trimOlderToolResults on its own
\* callClaude at rest: the state of its variables while another part of the
\* program is looked at
LoopIdle ==
  /\ pc = "idle"
  /\ maxToolIterations = 1
  /\ messages = <<>>
  /\ aborted = FALSE
  /\ currentMessages = <<>>
  /\ iterations = 0
  /\ lastResponse = NoResponse
  /\ totalInputTokens = 0
  /\ totalOutputTokens = 0
  /\ toolsUsed = {}
  /\ toolCache = <<>>
  /\ toolUseBlocks = <<>>
  /\ toolResults = <<>>
  /\ toolIdx = 0
  /\ thrown = "none"
  /\ llmCalls = <<>>
  /\ execLog = <<>>
  /\ observed = NoObservation
  /\ abortedAtRound = FALSE
  /\ resultStrs = <<>>
  /\ produced = 0
  /\ hookThrew = FALSE

loop == <<pc, maxToolIterations, messages, aborted, currentMessages, iterations, acc,
          round, tools, thrown, llmCalls, observed, produced, hookThrew>>

\* the messages the conversations are made of: a pasted text that no trimming
\* shortens, an assistant message asking for a tool, a round with one large
\* result and its status note, and a round with a result just above the trim
\* threshold, one of exactly 500 characters and a long text block
HugeText == <<Seg("text", 0, 150000, 0)>>
TrimAlphabet ==
  { StringMessage("user", HugeText),
    BlockMessage("assistant", <<ToolUseBlock(1, "web_search", InputQ)>>),
    BlockMessage("user", <<ToolResultBlock(1, <<Seg("output", 1, 100000, 0)>>),
                           StatusNote(1, 3, 0)>>),
    BlockMessage("user", <<ToolResultBlock(1, <<Seg("output", 1, 510, 0)>>),
                           ToolResultBlock(2, <<Seg("output", 2, TRIM_THRESHOLD, 0)>>),
                           TextBlock(<<Seg("text", 0, 700, 0)>>)>>) }

Conversations == SeqsUpTo(TrimAlphabet, MaxConv)

TrimInit ==
  /\ LoopIdle
  /\ conversation \in Conversations
  /\ compacted = conversation
  /\ applications = 0
  /\ BotIdle
  /\ HistoryIdle
  /\ PhaseIdle
  /\ EarlyIdle
  /\ ThreadsIdle

\* trimOlderToolResults is applied to what it returned before
Compact ==
  /\ applications < MaxApply
  /\ compacted' = trimOlderToolResults(compacted)
  /\ applications' = applications + 1
  /\ UNCHANGED <<loop, earlyVars, threadVars, conversation, botVars, histVars, phaseVars>>

TrimNext == Compact

TrimSpec == TrimInit /\ [][TrimNext]_vars

\* --------------------------------------------- the bot around callClaude
\* handleClaudeRequest and the handlers that may run while requests are in
\* flight.  A request is [channel, stage, aborted, toolCache, served]: stage
\* "init" while stream.init is awaited, "loop" while callClaude is awaited,
\* "finished" afterwards.  An invocation of callClaude is reduced here to what
\* it does with its toolCache: the cache maps a key to the invocation whose
\* executeTool call produced the stored result, and served holds the
\* <<key, producer>> pairs that were answered from a cache.
Channels == {1, 2}

\* the tool calls whose results are cached
CachedCalls == {c \in ToolCalls : c.name \notin CACHE_EXEMPT_TOOLS /\ c.input # InputB}

Request(ch) ==
  [channel |-> ch, stage |-> "init", aborted |-> FALSE, toolCache |-> <<>>, served |-> {}]

\* activeRequests.delete(channelId)
MapDelete(map, key) == [k \in DOMAIN map \ {key} |-> map[k]]

BotInit ==
  /\ LoopIdle
  /\ TrimIdle
  /\ BotIdle
  /\ HistoryIdle
  /\ PhaseIdle
  /\ EarlyIdle
  /\ ThreadsIdle

CacheOwner_Shared(r) == 1

\* line 116 of callClaude: toolCache is a Map created by the invocation
CacheOwner(r) == r

\* lines 416-485: a message or interaction reaches handleClaudeRequest, which
\* builds the context and awaits stream.init
handleClaudeRequest(ch) ==
  /\ Len(requests) < MaxRequests
  /\ requests' = Append(requests, Request(ch))
  /\ UNCHANGED <<loop, earlyVars, threadVars, trimVars, histVars, phaseVars, activeRequests>>

\* lines 485-511: stream.init has returned; the context is registered and
\* callClaude is called (it runs to its first await with an empty toolCache)
StreamInitReturn(r) ==
  /\ requests[r].stage = "init"
  /\ activeRequests' = CacheSet(activeRequests, requests[r].channel, r)
  /\ requests' = [requests EXCEPT ![r].stage = "loop",
                                  ![CacheOwner(r)].toolCache = <<>>]
  /\ UNCHANGED <<loop, earlyVars, threadVars, trimVars, histVars, phaseVars>>

\* lines 485, 583-619: stream.init rejects; the finally block runs
StreamInitFail(r) ==
  /\ requests[r].stage = "init"
  /\ activeRequests' = MapDelete(activeRequests, requests[r].channel)
  /\ requests' = [requests EXCEPT ![r].stage = "finished"]
  /\ UNCHANGED <<loop, earlyVars, threadVars, trimVars, histVars, phaseVars>>

\* lines 488-491: the stop button of the request's stream
onStop(r) ==
  /\ requests[r].stage = "loop"
  /\ ~requests[r].aborted
  /\ requests' = [requests EXCEPT ![r].aborted = TRUE]
  /\ UNCHANGED <<loop, earlyVars, threadVars, trimVars, histVars, phaseVars, activeRequests>>

\* lines 1137-1143: a stop keyword in a channel with a registered request
StopKeyword(ch) ==
  /\ ch \in DOMAIN activeRequests
  /\ ~requests[activeRequests[ch]].aborted
  /\ requests' = [requests EXCEPT ![activeRequests[ch]].aborted = TRUE]
  /\ UNCHANGED <<loop, earlyVars, threadVars, trimVars, histVars, phaseVars, activeRequests>>

\* lines 234-249 of callClaude within request r: a tool call is answered
\* from the cache or executed and stored
BotToolCall(r, call) ==
  /\ requests[r].stage = "loop"
  /\ LET key == cacheKey(call)
         cache == requests[CacheOwner(r)].toolCache IN
       IF key \in DOMAIN cache
       THEN requests' = [requests EXCEPT
                           ![r].served = requests[r].served \cup {<<key, cache[key]>>}]
       ELSE requests' = [requests EXCEPT
                           ![CacheOwner(r)].toolCache = CacheSet(cache, key, r)]
  /\ UNCHANGED <<loop, earlyVars, threadVars, trimVars, histVars, phaseVars, activeRequests>>

\* lines 509-514, 583-619: callClaude returns or rejects (its locals are
\* gone); the entry of the channel is deleted
CallClaudeSettled(r) ==
  /\ requests[r].stage = "loop"
  /\ activeRequests' = MapDelete(activeRequests, requests[r].channel)
  /\ requests' = [requests EXCEPT ![r].stage = "finished",
                                  ![CacheOwner(r)].toolCache = <<>>,
                                  ![r].served = {}]
  /\ UNCHANGED <<loop, earlyVars, threadVars, trimVars, histVars, phaseVars>>

BotNext ==
  \/ \E ch \in Channels : handleClaudeRequest(ch)
  \/ \E r \in 1..Len(requests) : StreamInitReturn(r)
  \/ \E r \in 1..Len(requests) : StreamInitFail(r)
  \/ \E ch \in Channels : StopKeyword(ch)
  \/ \E r \in 1..Len(requests) : onStop(r)
  \/ \E r \in 1..Len(requests), call \in CachedCalls : BotToolCall(r, call)
  \/ \E r \in 1..Len(requests) : CallClaudeSettled(r)

BotSpec == BotInit /\ [][BotNext]_vars

\* ------------------------------------------------ the earlier bot (createBot)
\* src/src/bot.js: the messageCreate handler of createBot and handleDM.  A
\* handler is [channel, stage]: "typing" while handleClaudeRequest awaits
\* sendTyping, "loop" while it awaits runClaudeLoop, "finished" afterwards,
\* "rejected" when the message was answered with "Please wait".
GuildChannels == Channels
DMChannels == {3}

EarlyInit ==
  /\ LoopIdle
  /\ TrimIdle
  /\ BotIdle
  /\ HistoryIdle
  /\ PhaseIdle
  /\ EarlyIdle
  /\ ThreadsIdle

\* lines 33-97: a request in a guild channel; it is rejected when the channel
\* is in activeRequests, else the channel is added and handleClaudeRequest
\* is called
GuildMessage(ch) ==
  /\ Len(handlers) < MaxMessages
  /\ IF ch \in activeChannels
     THEN /\ handlers' = Append(handlers, [channel |-> ch, stage |-> "rejected"])
          /\ UNCHANGED activeChannels
     ELSE /\ activeChannels' = activeChannels \cup {ch}
          /\ handlers' = Append(handlers, [channel |-> ch, stage |-> "typing"])
  /\ UNCHANGED <<loop, trimVars, botVars, histVars, phaseVars, threadVars>>

\* lines 38-39, 110-222: a direct message that is no token command or help
\* request goes to handleClaudeRequest
DirectMessage(ch) ==
  /\ Len(handlers) < MaxMessages
  /\ handlers' = Append(handlers, [channel |-> ch, stage |-> "typing"])
  /\ UNCHANGED <<loop, trimVars, botVars, histVars, phaseVars, threadVars, activeChannels>>

\* lines 256-314: sendTyping has settled; the history is read and
\* runClaudeLoop is called
TypingSettled(h) ==
  /\ handlers[h].stage = "typing"
  /\ handlers' = [handlers EXCEPT ![h].stage = "loop"]
  /\ UNCHANGED <<loop, trimVars, botVars, histVars, phaseVars, threadVars, activeChannels>>

\* lines 96-100, 222: handleClaudeRequest returns or throws; the finally of
\* the guild handler deletes the channel, handleDM has nothing to release
RequestSettled(h) ==
  /\ handlers[h].stage = "loop"
  /\ handlers' = [handlers EXCEPT ![h].stage = "finished"]
  /\ activeChannels' = IF handlers[h].channel \in GuildChannels
                       THEN activeChannels \ {handlers[h].channel}
                       ELSE activeChannels
  /\ UNCHANGED <<loop, trimVars, botVars, histVars, phaseVars, threadVars>>

EarlyNext ==
  \/ \E ch \in GuildChannels : GuildMessage(ch)
  \/ \E ch \in DMChannels : DirectMessage(ch)
  \/ \E h \in 1..Len(handlers) : TypingSettled(h)
  \/ \E h \in 1..Len(handlers) : RequestSettled(h)

EarlySpec == EarlyInit /\ [][EarlyNext]_vars

\* ------------------------------------------------------ the chat threads
\* createChatThread of the bot and the registry of chat-threads.  A call of
\* createChatThread is [user, stage]: "starting" while msg.startThread is
\* awaited, "done", "failed" or "rejected" afterwards.
MAX_CHAT_THREADS_PER_USER == 10
Users == {1, 2}
ThreadIds == 1..(MAX_CHAT_THREADS_PER_USER + MaxCreate)

\* getChatThreadsByUser(userId)
getChatThreadsByUser(userId) == {t \in DOMAIN threads : threads[t] = userId}

\* the registry read from chat-threads.json at startup, with the timers that
\* startInactivityTimers has set for every thread kept
Started(n) ==
  /\ LoopIdle
  /\ TrimIdle
  /\ BotIdle
  /\ HistoryIdle
  /\ PhaseIdle
  /\ EarlyIdle
  /\ threads = [t \in 1..n |-> 1]
  /\ inactivityTimers = 1..n
  /\ creating = <<>>
  /\ nextThread = n + 1
  /\ threadMsgs = 0

ThreadInit == \E n \in 0..MAX_CHAT_THREADS_PER_USER : Started(n)

\* lines 761-807: createChatThread passes or fails the guard on the number
\* of threads of the user, then awaits msg.startThread
createChatThread(u) ==
  /\ Len(creating) < MaxCreate
  /\ creating' = Append(creating,
       [user |-> u,
        stage |-> IF Cardinality(getChatThreadsByUser(u)) >= MAX_CHAT_THREADS_PER_USER
                  THEN "rejected" ELSE "starting"])
  /\ UNCHANGED <<loop, trimVars, botVars, histVars, phaseVars, earlyVars, threads,
                 inactivityTimers, nextThread, threadMsgs>>

\* lines 807-808 and addChatThread: the thread exists and is registered; no
\* inactivity timer is set
StartThreadReturn(c) ==
  /\ creating[c].stage = "starting"
  /\ threads' = CacheSet(threads, nextThread, creating[c].user)
  /\ nextThread' = nextThread + 1
  /\ creating' = [creating EXCEPT ![c].stage = "done"]
  /\ UNCHANGED <<loop, trimVars, botVars, histVars, phaseVars, earlyVars,
                 inactivityTimers, threadMsgs>>

\* lines 807, 856-868: msg.startThread rejects
StartThreadFail(c) ==
  /\ creating[c].stage = "starting"
  /\ creating' = [creating EXCEPT ![c].stage = "failed"]
  /\ UNCHANGED <<loop, trimVars, botVars, histVars, phaseVars, earlyVars, threads,
                 inactivityTimers, nextThread, threadMsgs>>

\* lines 1132-1146 and touchThread: a user message in a registered thread
\* sets its inactivity timer anew
ThreadMessage(t) ==
  /\ threadMsgs < MaxThreadMsgs
  /\ t \in DOMAIN threads
  /\ inactivityTimers' = inactivityTimers \cup {t}
  /\ threadMsgs' = threadMsgs + 1
  /\ UNCHANGED <<loop, trimVars, botVars, histVars, phaseVars, earlyVars, threads,
                 creating, nextThread>>

\* lines 1132-1146, 355-357, closeThread and removeChatThread: the user
\* says "close" in the thread
ExitChat(t) ==
  /\ t \in DOMAIN threads
  /\ threads' = MapDelete(threads, t)
  /\ inactivityTimers' = inactivityTimers \ {t}
  /\ UNCHANGED <<loop, trimVars, botVars, histVars, phaseVars, earlyVars, creating,
                 nextThread, threadMsgs>>

\* _setInactivityTimer, lines 149-155, closeThread and removeChatThread:
\* threadInactivityMs after the timer was set it fires and the thread is closed
InactivityTimeout(t) ==
  /\ t \in inactivityTimers
  /\ threads' = MapDelete(threads, t)
  /\ inactivityTimers' = inactivityTimers \ {t}
  /\ UNCHANGED <<loop, trimVars, botVars, histVars, phaseVars, earlyVars, creating,
                 nextThread, threadMsgs>>

ThreadNext ==
  \/ \E u \in Users : createChatThread(u)
  \/ \E c \in 1..Len(creating) : StartThreadReturn(c)
  \/ \E c \in 1..Len(creating) : StartThreadFail(c)
  \/ \E t \in ThreadIds : ThreadMessage(t)
  \/ \E t \in ThreadIds : InactivityTimeout(t)
  \/ \E t \in ThreadIds : ExitChat(t)

ThreadSpec == ThreadInit /\ [][ThreadNext]_vars

\* the bot starts with an empty registry; a timer that is set fires
InactivitySpec ==
  Started(0) /\ [][ThreadNext]_vars /\ WF_vars(\E t \in ThreadIds : InactivityTimeout(t))

\* ------------------------------------------------- the conversation store
\* addMessage of the conversation store: push, then shift while the history
\* is longer than config.maxConversationMessages
RECURSIVE ShiftToCap(_, _)
ShiftToCap(h, cap) == IF Len(h) > cap THEN ShiftToCap(Tail(h), cap) ELSE h

addMessage(h, role, content) ==
  ShiftToCap(Append(h, StringMessage(role, content)), maxConversationMessages)

HistoryInit ==
  /\ LoopIdle
  /\ TrimIdle
  /\ BotIdle
  /\ PhaseIdle
  /\ EarlyIdle
  /\ ThreadsIdle
  /\ history = <<>>
  /\ maxConversationMessages \in 1..MaxCap
  /\ request = <<>>

\* handleClaudeRequest in a chat thread (part_002 lines 473-475, 509) and
\* callClaude up to its first LLM call (lines 96-148): the query is stored,
\* the history is read and its recent part is what the LLM is sent
ThreadRequest ==
  /\ request = <<>>
  /\ history' = addMessage(history, "user", Query)
  /\ request' = trimOlderToolResults(recentHistory(history'))
  /\ UNCHANGED <<loop, earlyVars, threadVars, trimVars, botVars, phaseVars, maxConversationMessages>>

\* part_002 lines 528-547: callClaude returned a text, which is stored
ThreadReply ==
  /\ request # <<>>
  /\ history' = addMessage(history, "assistant", LongText)
  /\ request' = <<>>
  /\ UNCHANGED <<loop, earlyVars, threadVars, trimVars, botVars, phaseVars, maxConversationMessages>>

\* part_002 lines 517-526, 545, 583-616: the request was cancelled, failed or
\* gave no text; nothing is stored
ThreadNoReply ==
  /\ request # <<>>
  /\ request' = <<>>
  /\ UNCHANGED <<loop, earlyVars, threadVars, trimVars, botVars, phaseVars, maxConversationMessages, history>>

HistoryNext == ThreadRequest \/ ThreadReply \/ ThreadNoReply

HistorySpec == HistoryInit /\ [][HistoryNext]_vars

\* ---------------------------------------------- the status note on its own
StatusInputs ==
  { [i |-> i, maxIter |-> m, tokens |-> t] : i \in 1..MaxIter, m \in 1..MaxIter, t \in {0, 5000} }

PhaseInit ==
  /\ LoopIdle
  /\ TrimIdle
  /\ BotIdle
  /\ HistoryIdle
  /\ statusInput \in {in \in StatusInputs : in.i <= in.maxIter}
  /\ budgetTable = <<>>
  /\ note = NoNote
  /\ EarlyIdle
  /\ ThreadsIdle

\* buildSystemPrompt, section 10: the rows of the Iteration Budget table.
\* Math.floor(maxIter * 0.7) is 7 * maxIter \div 10 and Math.floor(maxIter *
\* 0.9) is 9 * maxIter \div 10 for every maxIter below 90
IterationBudget(maxIter) ==
  LET researchEnd == IF maxIter < 3 THEN maxIter ELSE 3
      wrapUpStart == (7 * maxIter) \div 10
      stopStart == (9 * maxIter) \div 10 IN
  << [phase |-> "Research", from |-> 1, to |-> researchEnd, open |-> FALSE],
     [phase |-> "Action", from |-> researchEnd + 1, to |-> wrapUpStart, open |-> FALSE],
     [phase |-> "Wrap up", from |-> wrapUpStart + 1, to |-> stopStart, open |-> FALSE],
     [phase |-> "STOP", from |-> stopStart + 1, to |-> stopStart + 1, open |-> TRUE] >>

\* the system prompt of the request is built, from the same maxToolIterations
buildSystemPrompt ==
  /\ budgetTable = <<>>
  /\ budgetTable' = IterationBudget(statusInput.maxIter)
  /\ UNCHANGED <<loop, earlyVars, threadVars, trimVars, botVars, histVars, statusInput, note>>

\* lines 286-297: the status note of iteration i of maxIter is built
InjectStatus ==
  /\ budgetTable # <<>>
  /\ note = NoNote
  /\ note' = StatusNote(statusInput.i, statusInput.maxIter, statusInput.tokens)
  /\ UNCHANGED <<loop, earlyVars, threadVars, trimVars, botVars, histVars, statusInput, budgetTable>>

PhaseNext == buildSystemPrompt \/ InjectStatus

PhaseSpec == PhaseInit /\ [][PhaseNext]_vars

\* ------------------------------------------------------------------ claims
\* the round in progress: iterations is the iteration of toolUseBlocks
InRound == pc \in {"tool", "exec"}

\* executeTool was invoked for tool idx of the round of iteration it
ExecutedAt(it, idx) ==
  \E i \in 1..Len(execLog) : execLog[i].iteration = it /\ execLog[i].index = idx

\* an identical call (same name, same input) was executed before tool idx of
\* iteration it
ExecutedBefore(toolUse, it, idx) ==
  \E i \in 1..Len(execLog) :
    /\ execLog[i].name = toolUse.name
    /\ execLog[i].input = toolUse.input
    /\ (execLog[i].iteration < it \/ (execLog[i].iteration = it /\ execLog[i].index < idx))

\* every settled LLM call made with the tool catalog asked for tool use
AllRequestTools ==
  \A i \in 1..Len(llmCalls) :
    llmCalls[i].tools => llmCalls[i].response.stop_reason = "tool_use"

BaseLen == Len(recentHistory(messages))

\* C1: budget backstop.  With maxToolIterations = k, no abort and every
\* response asking for tools, callClaude returns after exactly k + 1 LLM
\* calls: k with tools, each followed by its round (the assistant message and
\* the result message in the conversation), then one summary call without
\* tools whose response is the one returned.
C1_BudgetBackstop ==
  (pc = "done" /\ ~aborted /\ AllRequestTools) =>
    /\ Len(llmCalls) = maxToolIterations + 1
    /\ \A i \in 1..maxToolIterations :
         /\ llmCalls[i].tools
         /\ currentMessages[BaseLen + 2 * i - 1] =
              BlockMessage("assistant", llmCalls[i].response.content)
         /\ currentMessages[BaseLen + 2 * i].role = "user"
         /\ ~currentMessages[BaseLen + 2 * i].isString
    /\ ~llmCalls[maxToolIterations + 1].tools
    /\ lastResponse = llmCalls[maxToolIterations + 1].response
    /\ iterations = maxToolIterations

C1_Witness ==
  /\ pc = "done" /\ ~aborted /\ AllRequestTools
  /\ maxToolIterations >= 2
  /\ Len(execLog) >= 2

\* C2 as stated: in every terminal state iterations equals the number of LLM
\* calls made, the forced-summary call included.
C2_IterationsEqualLLMCalls ==
  pc = "done" => iterations = Len(llmCalls)

\* C2 amended: in every terminal state iterations equals the number of loop
\* iterations started: the number of LLM calls made with the tool catalog,
\* plus one when the loop ended at the abort check at the top of an iteration;
\* the forced-summary call is not counted.
C2_IterationsCountLoopPasses ==
  pc = "done" =>
    iterations = Cardinality({i \in 1..Len(llmCalls) : llmCalls[i].tools})
                 + (IF observed.at = "top" THEN 1 ELSE 0)

C2_Witness ==
  /\ pc = "done"
  /\ Len(llmCalls) >= 2
  /\ ~llmCalls[Len(llmCalls)].tools
  /\ iterations = Len(llmCalls) - 1

\* C3: idempotent caching.  A call of a non-exempt tool that repeats an
\* earlier call of the same invocation (same name, same input), whatever the
\* earlier call's outcome, is not handed to executeTool and its result
\* carries the cached marker.
C3_IdempotentCaching ==
  InRound =>
    \A j \in 1..Len(toolUseBlocks) :
      (/\ toolUseBlocks[j].name \notin CACHE_EXEMPT_TOOLS
       /\ ExecutedBefore(toolUseBlocks[j], iterations, j))
      => /\ ~ExecutedAt(iterations, j)
         /\ j <= Len(toolResults) => HasCachedMarker(toolResults[j].str)

\* C4: exemption honoured.  Every processed call of a tool in
\* CACHE_EXEMPT_TOOLS was handed to executeTool, also when an identical call
\* was executed before, and its result carries no cached marker.
C4_ExemptionHonored ==
  InRound =>
    \A j \in 1..Len(toolResults) :
      toolUseBlocks[j].name \in CACHE_EXEMPT_TOOLS
      => /\ ExecutedAt(iterations, j)
         /\ ~HasCachedMarker(toolResults[j].str)

C4_Witness ==
  /\ InRound
  /\ \E j \in 1..Len(toolResults) :
       /\ toolUseBlocks[j].name \in CACHE_EXEMPT_TOOLS
       /\ cacheKey(toolUseBlocks[j]) \in DOMAIN toolCache
       /\ \E i \in 1..Len(execLog) :
            /\ execLog[i].name = toolUseBlocks[j].name
            /\ execLog[i].input = toolUseBlocks[j].input
            /\ ~execLog[i].threw
            /\ execLog[i].iteration < iterations

\* C5: abort precedence.  No tool of a round is executed when the abort flag
\* was already set as the round began (set while the LLM call or a hook was
\* in flight).
C5_AbortPrecedence ==
  \A i \in 1..Len(execLog) : ~execLog[i].abortedAtRound

\* C6: once the loop has seen the abort flag, it makes no further LLM call
\* (the forced summary included) and executes no further tool.
C6_NothingAfterAbortObserved ==
  observed.at # "none" =>
    /\ Len(llmCalls) = observed.llm
    /\ Len(execLog) = observed.exec

\* C7: mid-round abort keeps completed work.  When the loop breaks out of a
\* round after j >= 1 tools, the conversation ends with the round's result
\* message holding exactly the j results collected, and no further tool runs.
C7_PartialResultsAppended ==
  (pc \in {"afterLoop", "done"} /\ observed.at = "tools" /\ observed.done >= 1) =>
    /\ Len(toolResults) = observed.done
    /\ Len(execLog) = observed.exec
    /\ \E m \in 1..Len(currentMessages) :
         /\ currentMessages[m].role = "user"
         /\ ~currentMessages[m].isString
         /\ FilterType(currentMessages[m].content, "tool_result") = toolResults

\* C8: error containment.  callClaude never rejects because a tool threw: the
\* result of a tool that threw is the text 'Error: <message>', the round goes
\* on with the next tool (or ends at the abort check), and the only way
\* callClaude rejects is a failed LLM call.
C8_StateInv ==
  /\ thrown \in {"none"} \cup LLMErrors
  /\ pc = "thrown" => llmCalls[Len(llmCalls)].outcome = "failed"
  /\ InRound =>
       \A i \in 1..Len(execLog) :
         (execLog[i].threw /\ execLog[i].iteration = iterations)
         => /\ execLog[i].index <= Len(toolResults)
            /\ toolResults[execLog[i].index].str = ErrorText(ErrMessage(i))

C8_Step ==
  (pc = "exec" /\ execLog'[Len(execLog')].threw)
  => IF aborted THEN pc' = "afterLoop"
     ELSE pc' = "tool" /\ toolIdx' = toolIdx + 1 /\ Len(toolResults') = toolIdx

C8_ErrorContainment == [](C8_StateInv) /\ [][C8_Step]_vars

C8_Witness ==
  /\ pc = "exec"
  /\ toolIdx = 2
  /\ \E i \in 1..Len(execLog) :
       execLog[i].threw /\ execLog[i].iteration = iterations /\ execLog[i].index = 1

\* C9: an LLM failure is fatal and not retried.  A failed LLM call is the last
\* one made; callClaude rejects with its error and executes no tool after it.
C9_LLMFailureFatal ==
  \A i \in 1..Len(llmCalls) :
    llmCalls[i].outcome = "failed"
    => /\ i = Len(llmCalls)
       /\ pc = "thrown"
       /\ thrown = llmCalls[i].error
       /\ Len(execLog) = llmCalls[i].execs

C9_Witness ==
  /\ pc = "thrown"
  /\ Len(llmCalls) >= 2
  /\ ~llmCalls[Len(llmCalls)].tools
  /\ llmCalls[Len(llmCalls)].outcome = "failed"
  /\ Len(execLog) >= 1

\* C10 as stated: a response ends the loop exactly when it holds no tool_use
\* block and starts a tool round exactly when it holds one or more, whatever
\* its stop_reason.
C10_CompletionByContent ==
  [][(pc = "llm" /\ pc' \notin {"llm", "thrown"})
     => ((pc' = "afterLoop") <=> (FilterType(lastResponse'.content, "tool_use") = <<>>))]_vars

\* C10 amended: a response ends the loop exactly when its stop_reason is not
\* 'tool_use' (its tool_use blocks, if any, are then not executed) and starts
\* a tool round over its tool_use blocks exactly when stop_reason is
\* 'tool_use'; a round that ends without abort has processed every block.
C10_CompletionByStopReason ==
  [][/\ (pc = "llm" /\ pc' \notin {"llm", "thrown"})
        => /\ (pc' = "afterLoop") <=> (lastResponse'.stop_reason # "tool_use")
           /\ pc' = "afterLoop" => execLog' = execLog /\ toolUseBlocks' = toolUseBlocks
           /\ pc' # "afterLoop"
              => toolUseBlocks' = FilterType(lastResponse'.content, "tool_use")
     /\ (pc = "tool" /\ pc' = "loop")
        => /\ Len(toolResults) = Len(toolUseBlocks)
           /\ \A j \in 1..Len(toolUseBlocks) : toolResults[j].id = toolUseBlocks[j].id]_vars

C10_Witness ==
  /\ pc = "afterLoop"
  /\ lastResponse.stop_reason = "max_tokens"
  /\ FilterType(lastResponse.content, "tool_use") # <<>>
  /\ observed.at = "none"

\* a response without tool_use block
ToolFree(response) == FilterType(response.content, "tool_use") = <<>>

\* C11: the forced summary is issued only when the iteration limit is reached
\* before any tool-free response.  A tool-free response to an LLM call made
\* with the tool catalog (any iteration up to maxToolIterations, the last one
\* included) is the response returned and no further LLM call is made.
C11_NoSummaryAfterFinalAnswer ==
  \A i \in 1..Len(llmCalls) :
    (llmCalls[i].tools /\ llmCalls[i].outcome = "ok" /\ ToolFree(llmCalls[i].response))
    => /\ i = Len(llmCalls)
       /\ pc = "done" => lastResponse = llmCalls[i].response

\* the token counts reported by the first n LLM calls
RECURSIVE SumInputTokens(_, _)
SumInputTokens(calls, n) ==
  IF n = 0 THEN 0 ELSE calls[n].response.usage.input_tokens + SumInputTokens(calls, n - 1)

RECURSIVE SumOutputTokens(_, _)
SumOutputTokens(calls, n) ==
  IF n = 0 THEN 0 ELSE calls[n].response.usage.output_tokens + SumOutputTokens(calls, n - 1)

\* C12: usage accounting.  When callClaude returns, totalUsage.inputTokens and
\* totalUsage.outputTokens are the sums of the input and output token counts
\* reported by all LLM calls of the invocation, the forced summary included.
C12_UsageAccounting ==
  pc = "done" =>
    /\ totalInputTokens = SumInputTokens(llmCalls, Len(llmCalls))
    /\ totalOutputTokens = SumOutputTokens(llmCalls, Len(llmCalls))

C12_Witness ==
  /\ pc = "done"
  /\ Len(llmCalls) >= 2
  /\ ~llmCalls[Len(llmCalls)].tools
  /\ llmCalls[Len(llmCalls)].response.usage.input_tokens > 0
  /\ totalInputTokens > llmCalls[Len(llmCalls)].response.usage.input_tokens

\* the last n elements of a sequence
LastN(s, n) == SubSeq(s, Len(s) - n + 1, Len(s))

\* a block of the message is a tool result above the trim threshold
HasLargeResult(msg) ==
  /\ msg.role = "user" /\ ~msg.isString
  /\ \E j \in 1..Len(msg.content) :
       msg.content[j].type = "tool_result" /\ StrLen(msg.content[j].str) > TRIM_THRESHOLD

\* C13: compaction preserves the tail.  For a conversation of more than 4
\* messages the last 4 messages returned by trimOlderToolResults are the last
\* 4 messages of its argument, whatever the token estimate.
C13_TailPreserved ==
  Len(conversation) > PROTECTED_TAIL
  => LastN(compacted, PROTECTED_TAIL) = LastN(conversation, PROTECTED_TAIL)

C13_Witness ==
  /\ applications >= 1
  /\ Len(conversation) > PROTECTED_TAIL
  /\ compacted # conversation
  /\ \E i \in (Len(conversation) - PROTECTED_TAIL + 1)..Len(conversation) :
       HasLargeResult(compacted[i])

\* C14: compaction fixed point.  A conversation whose estimate is within
\* CONTEXT_TOKEN_BUDGET is returned unchanged, however often
\* trimOlderToolResults is applied.
C14_FixedPoint ==
  estimateTokens(conversation) <= CONTEXT_TOKEN_BUDGET => compacted = conversation

C14_Witness ==
  /\ applications = MaxApply
  /\ estimateTokens(conversation) <= CONTEXT_TOKEN_BUDGET
  /\ Len(conversation) > PROTECTED_TAIL
  /\ HasLargeResult(conversation[1])

\* C15: compaction only rewrites tool result content.  The conversation
\* returned has the same number of messages, the same role at every position
\* and the same blocks in the same order; a block differs at most by its
\* content string, and then it is a tool_result block (same tool_use_id) of a
\* user message outside the last 4.
C15_OnlyResultContentRewritten ==
  /\ Len(compacted) = Len(conversation)
  /\ \A i \in 1..Len(conversation) :
       /\ compacted[i].role = conversation[i].role
       /\ compacted[i].isString = conversation[i].isString
       /\ Len(compacted[i].content) = Len(conversation[i].content)
       /\ \A j \in 1..Len(conversation[i].content) :
            LET old == conversation[i].content[j]
                new == compacted[i].content[j] IN
            /\ new = [old EXCEPT !.str = new.str]
            /\ new.str # old.str
               => /\ old.type = "tool_result"
                  /\ conversation[i].role = "user"
                  /\ i <= Len(conversation) - PROTECTED_TAIL

C15_Witness ==
  /\ applications >= 1
  /\ \E i \in 1..(Len(conversation) - PROTECTED_TAIL) :
       conversation[i].role = "assistant"
  /\ \E i \in 1..(Len(conversation) - PROTECTED_TAIL) :
       /\ compacted[i] # conversation[i]
       /\ Len(conversation[i].content) >= 3

\* the tool_result blocks of all messages of a conversation
RECURSIVE ResultBlocks(_)
ResultBlocks(msgs) ==
  IF msgs = <<>> THEN <<>>
  ELSE (IF Head(msgs).isString THEN <<>> ELSE FilterType(Head(msgs).content, "tool_result"))
       \o ResultBlocks(Tail(msgs))

\* the longest truncation notice: the original length has at most 5 digits here
MaxNoticeLen == 73 + 5

\* C16: truncation bound.  The content of every tool result of a round is
\* resultStr itself when resultStr has at most TOOL_RESULT_MAX_CHARS
\* characters; otherwise it is the first 12,000 characters of resultStr
\* followed by the truncation notice, which marks it as truncated and names
\* the original length.  The round's result message carries these contents
\* into the conversation, where no tool result is longer than 12,000
\* characters plus the notice.
C16_StateInv ==
  /\ Len(resultStrs) = Len(toolResults)
  /\ \A j \in 1..Len(toolResults) :
       LET raw == resultStrs[j]
           content == toolResults[j].str
           notice == TruncationNotice(StrLen(raw)) IN
       /\ StrLen(content) <= TOOL_RESULT_MAX_CHARS + StrLen(notice)
       /\ StrLen(raw) <= TOOL_RESULT_MAX_CHARS => content = raw
       /\ StrLen(raw) > TOOL_RESULT_MAX_CHARS
          => /\ content = Substring(raw, TOOL_RESULT_MAX_CHARS) \o notice
             /\ StrLen(content) = TOOL_RESULT_MAX_CHARS + StrLen(notice)
  /\ \A j \in 1..Len(ResultBlocks(currentMessages)) :
       StrLen(ResultBlocks(currentMessages)[j].str) <= TOOL_RESULT_MAX_CHARS + MaxNoticeLen

C16_Step ==
  (pc = "tool" /\ pc' = "loop")
  => /\ Len(currentMessages') = Len(currentMessages) + 1
     /\ FilterType(currentMessages'[Len(currentMessages')].content, "tool_result") = toolResults

C16_TruncationBound == [](C16_StateInv) /\ [][C16_Step]_vars

C16_Witness ==
  /\ pc = "loop"
  /\ Len(toolResults) = 2
  /\ \E j \in 1..2 : StrLen(resultStrs[j]) > TOOL_RESULT_MAX_CHARS
  /\ \E j \in 1..2 : StrLen(resultStrs[j]) <= TOOL_RESULT_MAX_CHARS
  /\ FilterType(currentMessages[Len(currentMessages)].content, "tool_result") = toolResults

\* the requests of a channel whose callClaude invocation is in flight
InFlight(ch) ==
  {r \in 1..Len(requests) : requests[r].channel = ch /\ requests[r].stage = "loop"}

\* C17: session registry.  At any time at most one callClaude invocation is
\* in flight per channel id.
C17_OneLoopPerChannel ==
  \A ch \in Channels : Cardinality(InFlight(ch)) <= 1

\* C18: the tool result cache is private to one invocation.  What an
\* invocation's cache holds was produced by that invocation, a call answered
\* from a cache is answered with a result the same invocation produced, and
\* an invocation starts with an empty cache.
C18_StateInv ==
  \A r \in 1..Len(requests) :
    /\ \A h \in requests[r].served : h[2] = r
    /\ \A k \in DOMAIN requests[r].toolCache : requests[r].toolCache[k] = r

C18_Step ==
  \A r \in 1..Len(requests) :
    (requests[r].stage = "init" /\ requests'[r].stage = "loop")
    => requests'[r].toolCache = <<>> /\ requests'[r].served = {}

C18_CachePrivate == [](C18_StateInv) /\ [][C18_Step]_vars

C18_Witness ==
  \E r1, r2 \in 1..Len(requests) :
    /\ r1 # r2
    /\ requests[r1].stage = "loop" /\ requests[r2].stage = "loop"
    /\ \E k \in DOMAIN requests[r1].toolCache :
         /\ k \in DOMAIN requests[r2].toolCache
         /\ <<k, r1>> \in requests[r1].served
         /\ <<k, r2>> \in requests[r2].served

\* C19: cancellation never preempts a started tool.  A tool execution in
\* flight ends only by its own return or throw, also when the abort flag is
\* set meanwhile; its result is pushed before the loop reacts to the flag,
\* and the tools skipped by the break are those after it, none of which was
\* started.
C19_StateInv ==
  observed.at = "tools" =>
    /\ Len(toolResults) = observed.done
    /\ \A j \in 1..observed.done : toolResults[j].id = toolUseBlocks[j].id
    /\ \A i \in 1..Len(execLog) :
         execLog[i].iteration = observed.iteration => execLog[i].index <= observed.done

C19_Step ==
  (pc = "exec" /\ pc' # "exec")
  => /\ Len(toolResults') = Len(toolResults) + 1
     /\ toolResults'[toolIdx] =
          ToolResultBlock(toolUseBlocks[toolIdx].id,
                          truncateResult(IF execLog'[Len(execLog)].threw
                                         THEN ErrorText(ErrMessage(Len(execLog)))
                                         ELSE ToolOutput(toolUseBlocks[toolIdx].name,
                                                         Len(execLog))))
     /\ IF aborted
        THEN pc' = "afterLoop" /\ observed'.at = "tools" /\ observed'.done = toolIdx
        ELSE pc' = "tool"

C19_NoPreemption == [](C19_StateInv) /\ [][C19_Step]_vars

C19_Witness ==
  /\ pc = "afterLoop"
  /\ observed.at = "tools"
  /\ observed.done < Len(toolUseBlocks)
  /\ observed.exec >= 1
  /\ execLog[observed.exec].index = observed.done
  /\ ~execLog[observed.exec].abortedBefore
  /\ Len(toolResults) = observed.done

\* C20: abort is not an error.  Once the loop has seen the abort flag,
\* callClaude does not reject, and it returns the token totals accumulated up
\* to that point.
C20_AbortReturnsNormally ==
  observed.at # "none" =>
    /\ pc # "thrown"
    /\ pc = "done" =>
         /\ totalInputTokens = SumInputTokens(llmCalls, observed.llm)
         /\ totalOutputTokens = SumOutputTokens(llmCalls, observed.llm)

\* C21: every message list sent to the LLM starts with a user message,
\* whatever history the addMessage calls of a chat thread have stored.
C21_FirstMessageIsUser ==
  request # <<>> => request[1].role = "user"

\* callClaude has returned or rejected
Terminated == pc \in {"done", "thrown"}

C23_PhaseFunction ==
  note # NoNote =>
    LET i == statusInput.i
        m == statusInput.maxIter IN
    /\ (note.name = "Research") <=> (i <= 3)
    /\ (note.name = "Action") <=> (i > 3 /\ 10 * i < 7 * m)
    /\ (note.name = "Wrap up") <=> (i > 3 /\ 10 * i >= 7 * m /\ 10 * i < 9 * m)
    /\ (note.name = "STOP") <=> (i > 3 /\ 10 * i >= 9 * m)
    /\ note.id = i

C23_Witness ==
  /\ note.name = "Wrap up"
  /\ statusInput.i = 7
  /\ statusInput.maxIter = 10
  /\ statusInput.tokens > 0

\* C24: shape of a round's result message.  After a round that was not
\* aborted the conversation has grown by exactly two messages: the assistant
\* message holding the model's response, then one user message holding one
\* tool_result per tool_use block of the response, with the same ids in the
\* same order, followed by exactly one status note as its last block.
C24_RoundShape ==
  (pc = "loop" /\ iterations >= 1) =>
    LET n == Len(currentMessages)
        uses == FilterType(lastResponse.content, "tool_use") IN
    /\ n = BaseLen + 2 * iterations
    /\ currentMessages[n - 1] = BlockMessage("assistant", lastResponse.content)
    /\ currentMessages[n].role = "user"
    /\ ~currentMessages[n].isString
    /\ Len(currentMessages[n].content) = Len(uses) + 1
    /\ \A j \in 1..Len(uses) :
         /\ currentMessages[n].content[j].type = "tool_result"
         /\ currentMessages[n].content[j].id = uses[j].id
    /\ currentMessages[n].content[Len(uses) + 1] =
         StatusNote(iterations, maxToolIterations, totalInputTokens + totalOutputTokens)

C24_Witness ==
  /\ pc = "loop"
  /\ iterations >= 1
  /\ Len(FilterType(lastResponse.content, "tool_use")) = 2
  /\ Len(currentMessages[Len(currentMessages)].content) = 3
  /\ currentMessages[Len(currentMessages)].content[1].id
       # currentMessages[Len(currentMessages)].content[2].id

\* the conversation with its first i messages processed: a tool result above
\* 500 characters in a user message is cut to 500 characters plus the marker
Shortened(block) ==
  IF block.type = "tool_result" /\ StrLen(block.str) > TRIM_THRESHOLD
  THEN [block EXCEPT !.str = Substring(block.str, TRIM_THRESHOLD) \o TrimMarker]
  ELSE block

Processed(conv, i) ==
  [k \in 1..Len(conv) |->
     IF k <= i /\ conv[k].role = "user" /\ ~conv[k].isString
     THEN [conv[k] EXCEPT !.content = [j \in 1..Len(conv[k].content) |->
                                         Shortened(conv[k].content[j])]]
     ELSE conv[k]]

\* C25: compaction stops as soon as the budget is met.  Messages are
\* processed from the oldest on; when the estimate first falls within
\* CONTEXT_TOKEN_BUDGET after message i, the conversation returned is the one
\* with messages 1..i processed and every later message is the argument's.
C25_Step ==
  \A i \in 1..(Len(compacted) - PROTECTED_TAIL) :
    (/\ estimateTokens(compacted) > CONTEXT_TOKEN_BUDGET
     /\ estimateTokens(Processed(compacted, i)) <= CONTEXT_TOKEN_BUDGET
     /\ \A k \in 1..(i - 1) : estimateTokens(Processed(compacted, k)) > CONTEXT_TOKEN_BUDGET)
    => /\ compacted' = Processed(compacted, i)
       /\ \A j \in (i + 1)..Len(compacted) : compacted'[j] = compacted[j]

C25_StopsWhenBudgetMet == [][C25_Step]_vars

C25_Witness ==
  /\ applications >= 1
  /\ \E i, j \in 1..(Len(conversation) - PROTECTED_TAIL) :
       /\ i < j
       /\ compacted[i] # conversation[i]
       /\ HasLargeResult(conversation[j])
       /\ compacted[j] = conversation[j]

\* C26: compaction goes as far as allowed.  When the conversation returned is
\* still above CONTEXT_TOKEN_BUDGET, every tool result above 500 characters
\* in a user message outside the last 4 has been replaced by its first 500
\* characters plus the trimmed marker.
C26_TrimsAllWhenOverBudget ==
  (applications >= 1 /\ estimateTokens(compacted) > CONTEXT_TOKEN_BUDGET) =>
    \A i \in 1..(Len(conversation) - PROTECTED_TAIL) :
      (conversation[i].role = "user" /\ ~conversation[i].isString) =>
        \A j \in 1..Len(conversation[i].content) :
          LET old == conversation[i].content[j] IN
          (old.type = "tool_result" /\ StrLen(old.str) > TRIM_THRESHOLD)
          => compacted[i].content[j].str = Substring(old.str, TRIM_THRESHOLD) \o TrimMarker

C26_Witness ==
  /\ applications >= 1
  /\ estimateTokens(compacted) > CONTEXT_TOKEN_BUDGET
  /\ \E i, j \in 1..(Len(conversation) - PROTECTED_TAIL) :
       /\ i < j
       /\ HasLargeResult(conversation[i])
       /\ HasLargeResult(conversation[j])
       /\ compacted[i] # conversation[i]
       /\ compacted[j] # conversation[j]

\* C27: the cache-hit marker survives to the conversation.  The content of
\* the tool result built for a cache hit, whatever the length of the cached
\* result, holds the whole cache-hit marker.
C27_CachedMarkerSurvives ==
  \A j \in 1..Len(toolResults) :
    HasCachedMarker(resultStrs[j]) => HasCachedMarker(toolResults[j].str)

\* the objects hold the same keys with the same values
SameEntries(in1, in2) ==
  {in1[i] : i \in 1..Len(in1)} = {in2[i] : i \in 1..Len(in2)}

\* C28: canonical cache key.  A call of a non-exempt tool whose input holds
\* the keys and values of an earlier successful call of the same tool, in
\* whatever key order, is a cache hit: executeTool is not invoked for it.
C28_KeyOrderIrrelevant ==
  \A i, k \in 1..Len(execLog) :
    (/\ i < k
     /\ execLog[i].name = execLog[k].name
     /\ execLog[i].name \notin CACHE_EXEMPT_TOOLS
     /\ ~execLog[i].threw)
    => ~SameEntries(execLog[i].input, execLog[k].input)

\* C29: a failure to build the cache key is a cache miss, never fatal.  When
\* the input of the tool in turn cannot be serialized, callClaude does not
\* throw: the tool is handed to executeTool and its result is appended.
C29_KeyFailureIsCacheMiss ==
  (/\ toolIdx \in 1..Len(toolUseBlocks)
   /\ StringifyThrows(toolUseBlocks[toolIdx].input)
   /\ observed.at = "none")
  => pc # "thrown"

C34_NeverGrows ==
  applications = 1 => estimateTokens(compacted) <= estimateTokens(conversation)

\* C38: stop reaches the running request.  For the whole time a
\* handleClaudeRequest call is inside callClaude, the entry of its channel in
\* activeRequests is that call's own context, so that a stop keyword posted in
\* the channel sets its abort flag.
C38_StopReachesRunningRequest ==
  \A r \in 1..Len(requests) :
    requests[r].stage = "loop" =>
      /\ requests[r].channel \in DOMAIN activeRequests
      /\ activeRequests[requests[r].channel] = r

\* every assistant message of msgs that holds tool_use blocks is followed at
\* once by a user message with a tool_result for each of their ids
Answered(msgs) ==
  \A m \in 1..Len(msgs) :
    (/\ msgs[m].role = "assistant"
     /\ ~msgs[m].isString
     /\ \E j \in 1..Len(msgs[m].content) : msgs[m].content[j].type = "tool_use")
    => /\ m < Len(msgs)
       /\ msgs[m + 1].role = "user"
       /\ ~msgs[m + 1].isString
       /\ \A j \in 1..Len(msgs[m].content) :
            msgs[m].content[j].type = "tool_use" =>
              \E k \in 1..Len(msgs[m + 1].content) :
                /\ msgs[m + 1].content[k].type = "tool_result"
                /\ msgs[m + 1].content[k].id = msgs[m].content[j].id

\* C35: tool calls are always answered.  In every message list sent to the
\* LLM, the forced-summary call included, each assistant message with
\* tool_use blocks is followed by a user message holding a tool_result for
\* every one of them.
C35_ToolCallsAnswered ==
  \A c \in 1..Len(llmCalls) : Answered(llmCalls[c].messages)

\* the phases of the table whose iteration range contains i
TablePhases(table, i) ==
  { table[k].phase : k \in { n \in 1..Len(table) :
                               table[n].from <= i /\ (table[n].open \/ i <= table[n].to) } }

\* C36: the two phase schedules agree.  The phase named in the status note
\* injected after iteration i is the phase whose iteration range in the
\* Iteration Budget table of the system prompt contains i (one of them,
\* where the ranges of the table overlap).
C36_SchedulesAgree ==
  note # NoNote => note.name \in TablePhases(budgetTable, statusInput.i)

C37_Step ==
  hookThrew' # hookThrew => (AfterOnText \/ AfterOnToolStart)

\* C37: observability hooks cannot break the loop.  A rejection of the
\* onText or the onToolStart callback never makes callClaude throw, and the
\* step that follows it changes the state of callClaude exactly as the step
\* after a callback that returned: the tools executed, the messages appended
\* and the value returned afterwards are the same.
C37_HooksCannotBreakLoop ==
  [](thrown \in {"none"} \cup LLMErrors) /\ [][C37_Step]_vars

C37_Witness ==
  /\ hookThrew
  /\ pc = "done"
  /\ Len(execLog) >= 1
  /\ Len(currentMessages) >= 3

\* C31: in the earlier bot, two runClaudeLoop invocations for the same channel
\* are never in flight at the same time, in guild channels and in direct
\* messages alike.
C31_OneLoopPerChannelEarly ==
  \A h1, h2 \in 1..Len(handlers) :
    (/\ h1 # h2
     /\ handlers[h1].stage = "loop"
     /\ handlers[h2].stage = "loop")
    => handlers[h1].channel # handlers[h2].channel

\* C32: per-user thread limit.  No user ever has more than
\* MAX_CHAT_THREADS_PER_USER chat threads registered at the same time.
C32_ThreadLimit ==
  \A u \in Users : Cardinality(getChatThreadsByUser(u)) <= MAX_CHAT_THREADS_PER_USER

\* C33: inactivity auto-close.  Every registered chat thread is eventually
\* closed and removed from the registry.
C33_EventuallyClosed ==
  \A t \in ThreadIds : (t \in DOMAIN threads) ~> (t \notin DOMAIN threads)

====
